---- MODULE Spec2Model ----
(***************************************************************************)
(* Quick SOS (src/src/App.jsx): the App component as a state machine.       *)
(*                                                                         *)
(* Text typed by the user (phone, contact name) is a sequence of one-       *)
(* character strings, so that trim() and replace(/\D/g, "") are computed    *)
(* character by character.  The SOS message is the sequence of its lines    *)
(* (the code joins them with "\n"; no component holds a newline, the user   *)
(* name coming from a single-line <input>).                                 *)
(***************************************************************************)
EXTENDS Integers, Sequences, FiniteSets, TLC

VARIABLES
    status,        \* useState("")  (line 41)
    userName,      \* useState(loadString(STORAGE_NAME))  (line 43)
    contacts,      \* useState(loadJson(STORAGE_CONTACTS, []))  (line 47)
    contactName,   \* useState("")  (line 51)
    contactPhone,  \* useState("")  (line 52)
    lastMessage,   \* useState("")  (line 54), <<>> is ""
    lastLink,      \* useState("")  (line 55)
    storage,       \* localStorage: the two keys of lines 3-4
    nextId,        \* crypto.randomUUID(): the next fresh id
    pending,       \* sendSOS calls suspended at `await getLocationOnce()`
    href,          \* window.location.href, NoHref until a send assigns it
    clipboard,     \* the text last given to navigator.clipboard.writeText
    now,           \* the clock read by new Date()
    geolocation,   \* "geolocation" in navigator
    calls          \* the capability calls made by the last step, in order; a
                   \* step of sendSOS lists the calls of its state setters too

vars == <<status, userName, contacts, contactName, contactPhone, lastMessage,
          lastLink, storage, nextId, pending, href, clipboard, now,
          geolocation, calls>>

-----------------------------------------------------------------------------
(* Bounds of the model *)

MaxIds == 3      \* ids crypto.randomUUID() hands out in one run
MaxSends == 1    \* sendSOS calls in flight at once
MaxOverlap == 2  \* the same where sends are to overlap
MaxClock == 1    \* clock ticks in one run

(* Program constants *)

MinDigits == 7

STORAGE_NAME == "sos_user_name"
STORAGE_CONTACTS == "sos_contacts"

-----------------------------------------------------------------------------
(* Characters and strings *)

Digits == {"0", "1", "2", "3", "4", "5", "6", "7", "8", "9"}

\* the white space String.prototype.trim() strips
WhiteSpace == {" "}

RECURSIVE TrimStart(_)
TrimStart(s) ==
    IF s # <<>> /\ Head(s) \in WhiteSpace THEN TrimStart(Tail(s)) ELSE s

RECURSIVE TrimEnd(_)
TrimEnd(s) ==
    IF s # <<>> /\ s[Len(s)] \in WhiteSpace
    THEN TrimEnd(SubSeq(s, 1, Len(s) - 1))
    ELSE s

\* String.prototype.trim()
Trim(s) == TrimEnd(TrimStart(s))

IsDigit(c) == c \in Digits

\* (input || "").replace(/\D/g, "")
normalizePhone(input) == SelectSeq(input, IsDigit)

BlockedNumbers ==
    { <<"9", "1", "1">>, <<"1", "1", "2">>, <<"9", "9", "9">>, <<"9", "8", "8">> }

isBlockedNumber(input) == normalizePhone(input) \in BlockedNumbers

\* Array.prototype.join(sep) on an array of character sequences
RECURSIVE Join(_, _)
Join(parts, sep) ==
    IF parts = <<>> THEN <<>>
    ELSE IF Len(parts) = 1 THEN parts[1]
    ELSE parts[1] \o <<sep>> \o Join(Tail(parts), sep)

-----------------------------------------------------------------------------
(* Status texts *)

StEmptyPhone == "Enter a phone number."
StBlocked == "Emergency numbers like 911 cannot be added."
StTooShort == "That number looks too short."
StSaved == "Contact saved."
StRemoved == "Contact removed."
StNoContacts == "Add at least one contact first."
\* the source ends this text with U+2026, written here as three dots
StLocating == "Getting location..."
StOpening == "Opening SMS app (tap Send)."
StPressFirst == "Press SOS first."
StCopied == "Message copied."

-----------------------------------------------------------------------------
(* Persistence *)

\* what localStorage.getItem returns for a key never set
NoItem == [json |-> "null"]

\* JSON.stringify of the contact array: an array text of {id, name, phone}
\* objects, here the tuples of their three values
JsonStringify(cs) ==
    [json |-> "array",
     items |-> [i \in 1..Len(cs) |-> <<cs[i].id, cs[i].name, cs[i].phone>>]]

\* JSON.parse that hands back the three values of an object in another order
JsonParse_FieldsMixed(raw) ==
    [i \in 1..Len(raw.items) |->
        [id |-> raw.items[i][1], name |-> raw.items[i][3], phone |-> raw.items[i][2]]]

\* JSON.parse of an array text written by JsonStringify
JsonParse(raw) ==
    [i \in 1..Len(raw.items) |->
        [id |-> raw.items[i][1], name |-> raw.items[i][2], phone |-> raw.items[i][3]]]

\* a stored text JSON.parse throws on, and the empty text
MalformedText == [json |-> "malformed"]
EmptyText == [json |-> "empty"]

\* line 18 hands back the fallback for a raw value that is null or "", and
\* the catch of line 19 for a text JSON.parse throws on
loadJson(store, key, fallback) ==
    IF store[key] = NoItem THEN fallback
    ELSE IF store[key].json = "array" THEN JsonParse(store[key])
    ELSE fallback

loadString(store, key, fallback) ==
    IF store[key] = NoItem THEN fallback ELSE store[key].text

\* saveJson whose write is lost
saveJson_WriteLost(store, key, value) == store

saveJson(store, key, value) == [store EXCEPT ![key] = JsonStringify(value)]

\* a stored string is kept as the record of its text
saveString(store, key, value) == [store EXCEPT ![key] = [text |-> value]]

\* the call names recorded in `calls`
CallSaveContacts == "localStorage.setItem(sos_contacts)"
CallSaveName == "localStorage.setItem(sos_user_name)"
CallGetPosition == "geolocation.getCurrentPosition"
CallNavigate == "window.location.href="
CallWriteText == "clipboard.writeText"
CallSetStatus == "setStatus"
CallSetLastLink == "setLastLink"
CallSetLastMessage == "setLastMessage"

-----------------------------------------------------------------------------
(* Message composition and the dispatch target *)

RECURSIVE PadZeros(_, _)
PadZeros(s, width) == IF Len(s) >= width THEN s ELSE PadZeros("0" \o s, width)

\* Number.prototype.toFixed(6) of a coordinate given in units of 1e-7 degree:
\* the magnitude is rounded to the nearest 1e-6 (the larger on a tie) and
\* printed with six fractional digits, after a "-" when the number is negative
toFixed6(x) ==
    LET a == IF x < 0 THEN -x ELSE x
        n == (a + 5) \div 10
    IN  (IF x < 0 THEN "-" ELSE "") \o ToString(n \div 1000000) \o "."
            \o PadZeros(ToString(n % 1000000), 6)

mapsLink(lat, lon) == "https://maps.google.com/?q=" \o lat \o "," \o lon

\* new Date().toLocaleString() at clock value t
toLocaleString(t) == "11/5/2026, 12:00:0" \o ToString(t) \o " PM"

LineDetained ==
    "I'm being questioned or detained and may not be able to respond right now."
LineCheckOnMe == "Please check on me to make sure I'm okay."
LineLocationBelow == "My last known location is below:"
LineUnavailable == "My location is unavailable right now."

nameLine(name) ==
    IF name # "" THEN "My name is " \o name \o "." ELSE "This is an SOS message."

\* the template with no line for a missing location
message_NoFallbackLine(name, link, time) ==
    <<nameLine(name), LineDetained, LineCheckOnMe>>
        \o (IF link # "" THEN <<LineLocationBelow, link>> ELSE <<>>)
        \o <<"Time: " \o time>>

\* the template literal of lines 160-167, as the sequence of its lines
message(name, link, time) ==
    <<nameLine(name), LineDetained, LineCheckOnMe>>
        \o (IF link # "" THEN <<LineLocationBelow, link>> ELSE <<LineUnavailable>>)
        \o <<"Time: " \o time>>

\* characters encodeURIComponent leaves as they are (those of the model's alphabet)
Unreserved == Digits \cup {"-", "(", ")", ".", "A", "l"}

PercentCode(c) ==
    CASE c = " " -> "%20"
      [] c = "," -> "%2C"
      [] c = "+" -> "%2B"
      [] OTHER -> "%3F"

\* encodeURIComponent of a character sequence, one token per character
encodeURIComponent(s) ==
    [i \in 1..Len(s) |-> IF s[i] \in Unreserved THEN s[i] ELSE PercentCode(s[i])]

\* encodeURIComponent of the message: its lines (kept whole) joined by the
\* code of the newline
RECURSIVE encodeMessage(_)
encodeMessage(lines) ==
    IF lines = <<>> THEN <<>>
    ELSE IF Len(lines) = 1 THEN lines
    ELSE <<lines[1], "%0A">> \o encodeMessage(Tail(lines))

\* `sms:${to}?&body=${body}`
smsUrl(csv, msg) ==
    [scheme |-> "sms", to |-> encodeURIComponent(csv), body |-> encodeMessage(msg)]

NoHref == [scheme |-> "https"]

\* useMemo(() => contacts.map((c) => c.phone).join(","), [contacts])
recipientsCsv(cs) == Join([i \in 1..Len(cs) |-> cs[i].phone], ",")

-----------------------------------------------------------------------------
(* Inputs *)

\* phone texts the user types into the phone field
PhoneBlank == <<" ", " ">>
Phone911 == <<"9", "1", "1">>
Phone911Spaced == <<" ", "9", "-", "1", "-", "1", " ">>
Phone112 == <<"1", "1", "2">>
Phone999 == <<"(", "9", "9", "9", ")">>
Phone988 == <<"9", "8", "8", ".">>
PhoneSixDigits == <<"1", "2", "3", "4", "5", "6">>
PhoneDashed == <<"5", "5", "5", "-", "1", "2", "3", "4", "5", "6", "7">>
PhoneDashedPadded == <<" ">> \o PhoneDashed \o <<" ">>
PhonePlain == <<"5", "5", "5", "1", "2", "3", "4", "5", "6", "7">>
PhoneWithComma == <<"9", "1", "1", ",", "5", "5", "5", "1", "2", "3", "4">>

PhoneInputs ==
    { <<>>, PhoneBlank, Phone911, Phone911Spaced, Phone112, Phone999, Phone988,
      PhoneSixDigits, PhoneDashed, PhoneDashedPadded, PhonePlain, PhoneWithComma }

\* contact names the user types into the name field
ContactNames == { <<>>, <<" ", "A", "l", " ">> }

\* user names typed into the name field of the profile
UserNames == { "", "Alex" }

\* coordinates the sensor reports, in units of 1e-7 degree
Positions ==
    { [latitude |-> 370000000, longitude |-> -1220000000],
      [latitude |-> 515007996, longitude |-> -5] }

\* GeolocationPositionError.code: PERMISSION_DENIED, POSITION_UNAVAILABLE, TIMEOUT
PositionErrorCodes == {1, 2, 3}

\* lines 147-149 for each position of the inputs
PositionLink ==
    [pos \in Positions |->
        LET lat == toFixed6(pos.latitude)
            lon == toFixed6(pos.longitude)
        IN  mapsLink(lat, lon)]

\* line 142 for each reading of the clock
TimeText == [t \in 0..MaxClock |-> toLocaleString(t)]

-----------------------------------------------------------------------------
(* State after the first render and its effects, the store being empty *)

EmptyStorage == [k \in {STORAGE_NAME, STORAGE_CONTACTS} |-> NoItem]

Init ==
    /\ status = ""
    /\ userName = ""
    /\ contacts = loadJson(EmptyStorage, STORAGE_CONTACTS, <<>>)
    /\ contactName = <<>>
    /\ contactPhone = <<>>
    /\ lastMessage = <<>>
    /\ lastLink = ""
    /\ storage = saveJson(saveString(EmptyStorage, STORAGE_NAME, ""),
                          STORAGE_CONTACTS, <<>>)
    /\ nextId = 1
    /\ pending = <<>>
    /\ href = NoHref
    /\ clipboard = <<>>
    /\ now = 0
    /\ geolocation \in BOOLEAN
    /\ calls = <<>>

-----------------------------------------------------------------------------
(* The input fields (lines 200-221) *)

\* onChange of the user name; the effect of lines 57-59 saves it
SetUserName(v) ==
    /\ v # userName
    /\ userName' = v
    /\ storage' = saveString(storage, STORAGE_NAME, v)
    /\ calls' = <<CallSaveName>>
    /\ UNCHANGED <<status, contacts, contactName, contactPhone, lastMessage,
                   lastLink, nextId, pending, href, clipboard, now, geolocation>>

SetContactName(v) ==
    /\ v # contactName
    /\ contactName' = v
    /\ calls' = <<>>
    /\ UNCHANGED <<status, userName, contacts, contactPhone, lastMessage,
                   lastLink, storage, nextId, pending, href, clipboard, now,
                   geolocation>>

SetContactPhone(v) ==
    /\ v # contactPhone
    /\ contactPhone' = v
    /\ calls' = <<>>
    /\ UNCHANGED <<status, userName, contacts, contactName, lastMessage,
                   lastLink, storage, nextId, pending, href, clipboard, now,
                   geolocation>>

-----------------------------------------------------------------------------
(* The contact list (lines 70-117) *)

\* the loop of lines 99-106: `rest` is what is left to walk
RECURSIVE DedupLoop(_, _, _)
DedupLoop(rest, seen, dedup) ==
    IF rest = <<>> THEN dedup
    ELSE LET c == Head(rest)
         IN  IF c.phone \notin seen
             THEN DedupLoop(Tail(rest), seen \cup {c.phone}, Append(dedup, c))
             ELSE DedupLoop(Tail(rest), seen, dedup)

\* the loop keyed on the digits of the phone instead of the stored string
RECURSIVE DedupLoopByDigits(_, _, _)
DedupLoopByDigits(rest, seen, dedup) ==
    IF rest = <<>> THEN dedup
    ELSE LET c == Head(rest)
             key == normalizePhone(c.phone)
         IN  IF key \notin seen
             THEN DedupLoopByDigits(Tail(rest), seen \cup {key}, Append(dedup, c))
             ELSE DedupLoopByDigits(Tail(rest), seen, dedup)

Dedup_ByDigits(next) == DedupLoopByDigits(next, {}, <<>>)

Dedup(next) == DedupLoop(next, {}, <<>>)

\* the validation without its length check
Validate_NoLengthCheck(phone, digits) ==
    IF phone = <<>> THEN StEmptyPhone
    ELSE IF isBlockedNumber(phone) THEN StBlocked
    ELSE ""

\* the validation with the length check made before the blocked check
Validate_LengthFirst(phone, digits) ==
    IF phone = <<>> THEN StEmptyPhone
    ELSE IF Len(digits) < MinDigits THEN StTooShort
    ELSE IF isBlockedNumber(phone) THEN StBlocked
    ELSE ""

\* the validation with a length check that lets six digits pass
Validate_SixDigitsPass(phone, digits) ==
    IF phone = <<>> THEN StEmptyPhone
    ELSE IF isBlockedNumber(phone) THEN StBlocked
    ELSE IF Len(digits) < MinDigits - 1 THEN StTooShort
    ELSE ""

\* the validation of lines 74-87: the status of the first check that fails,
\* "" when none does
Validate(phone, digits) ==
    IF phone = <<>> THEN StEmptyPhone
    ELSE IF isBlockedNumber(phone) THEN StBlocked
    ELSE IF Len(digits) < MinDigits THEN StTooShort
    ELSE ""

\* the new contact put before the others
NextContacts_NewFirst(cs, id, name, phone) ==
    <<[id |-> id, name |-> Trim(name), phone |-> phone]>> \o cs

\* lines 89-96
NextContacts(cs, id, name, phone) ==
    Append(cs, [id |-> id, name |-> Trim(name), phone |-> phone])

addContact ==
    LET phone == Trim(contactPhone)
        digits == normalizePhone(phone)
        error == Validate(phone, digits)
    IN  IF error # ""
        THEN /\ status' = error
             /\ calls' = <<>>
             /\ UNCHANGED <<userName, contacts, contactName, contactPhone,
                            lastMessage, lastLink, storage, nextId, pending,
                            href, clipboard, now, geolocation>>
        ELSE /\ nextId <= MaxIds
             /\ LET dedup == Dedup(NextContacts(contacts, nextId, contactName, phone))
                IN  /\ contacts' = dedup
                    /\ storage' = saveJson(storage, STORAGE_CONTACTS, dedup)
             /\ nextId' = nextId + 1
             /\ contactName' = <<>>
             /\ contactPhone' = <<>>
             /\ status' = StSaved
             /\ calls' = <<CallSaveContacts>>
             /\ UNCHANGED <<userName, lastMessage, lastLink, pending, href,
                            clipboard, now, geolocation>>

\* contacts.filter((c) => c.id !== id)
FilterOut(cs, id) == SelectSeq(cs, LAMBDA c : c.id # id)

\* a remove that returns early when no contact has the id
removeContact_SkipsUnknownId(id) ==
    IF \E i \in 1..Len(contacts) : contacts[i].id = id
    THEN /\ contacts' = FilterOut(contacts, id)
         /\ storage' = saveJson(storage, STORAGE_CONTACTS, contacts')
         /\ status' = StRemoved
         /\ calls' = <<CallSaveContacts>>
         /\ UNCHANGED <<userName, contactName, contactPhone, lastMessage,
                        lastLink, nextId, pending, href, clipboard, now,
                        geolocation>>
    ELSE /\ status' = StRemoved
         /\ calls' = <<>>
         /\ UNCHANGED <<userName, contacts, contactName, contactPhone,
                        lastMessage, lastLink, storage, nextId, pending, href,
                        clipboard, now, geolocation>>

removeContact(id) ==
    /\ contacts' = FilterOut(contacts, id)
    /\ storage' = saveJson(storage, STORAGE_CONTACTS, contacts')
    /\ status' = StRemoved
    /\ calls' = <<CallSaveContacts>>
    /\ UNCHANGED <<userName, contactName, contactPhone, lastMessage, lastLink,
                   nextId, pending, href, clipboard, now, geolocation>>

-----------------------------------------------------------------------------
(* Sending (lines 119-177) *)

\* what a sendSOS call keeps across its await: the values of its render
\* (userName, recipientsCsv) and its local `time`; `sensor` is the state of
\* its position request
Closure(name, csv, time) ==
    [userName |-> name, recipientsCsv |-> csv, time |-> time, sensor |-> "waiting"]

\* Compose with line 176 moved before the setters
Compose_DispatchFirst(cl, link, made) ==
    LET msg == message(cl.userName, link, cl.time)
    IN  /\ lastLink' = link
        /\ lastMessage' = msg
        /\ href' = smsUrl(cl.recipientsCsv, msg)
        /\ status' = StOpening
        /\ calls' = made \o <<CallNavigate, CallSetLastLink, CallSetLastMessage,
                               CallSetStatus>>

\* Compose with the recipients of the latest render
Compose_CurrentContacts(cl, link, made) ==
    LET msg == message(cl.userName, link, cl.time)
    IN  /\ lastLink' = link
        /\ lastMessage' = msg
        /\ href' = smsUrl(recipientsCsv(contacts), msg)
        /\ status' = StOpening
        /\ calls' = made \o <<CallSetLastLink, CallSetLastMessage, CallSetStatus,
                               CallNavigate>>

\* Compose with the user name of the latest render and a clock reading taken
\* after the await
Compose_CurrentNameAndTime(cl, link, made) ==
    LET msg == message(userName, link, TimeText[now])
    IN  /\ lastLink' = link
        /\ lastMessage' = msg
        /\ href' = smsUrl(cl.recipientsCsv, msg)
        /\ status' = StOpening
        /\ calls' = made \o <<CallSetLastLink, CallSetLastMessage, CallSetStatus,
                               CallNavigate>>

\* lines 149-176, run with the `link` the try/catch of lines 145-154 left:
\* setLastLink (149 or 153), setLastMessage (169), setStatus (175) and the
\* assignment of line 176, in this order
Compose(cl, link, made) ==
    LET msg == message(cl.userName, link, cl.time)
    IN  /\ lastLink' = link
        /\ lastMessage' = msg
        /\ href' = smsUrl(cl.recipientsCsv, msg)
        /\ status' = StOpening
        /\ calls' = made \o <<CallSetLastLink, CallSetLastMessage, CallSetStatus,
                               CallNavigate>>

RemoveAt(q, i) == SubSeq(q, 1, i - 1) \o SubSeq(q, i + 1, Len(q))

\* lines 140-146 and, without navigator.geolocation, the rest of sendSOS: the
\* promise is then rejected in the call itself and the continuation runs as a
\* microtask, before any other event
StartSend ==
    LET cl == Closure(userName, recipientsCsv(contacts), TimeText[now])
    IN  IF ~geolocation
        THEN /\ Compose(cl, "", <<CallSetStatus>>)
             /\ UNCHANGED <<userName, contacts, contactName, contactPhone,
                            storage, nextId, pending, clipboard, now,
                            geolocation>>
        ELSE /\ pending' = Append(pending, cl)
             /\ status' = StLocating
             /\ calls' = <<CallSetStatus, CallGetPosition>>
             /\ UNCHANGED <<userName, contacts, contactName, contactPhone,
                            lastMessage, lastLink, storage, nextId, href,
                            clipboard, now, geolocation>>

\* sendSOS without the check of lines 135-138
sendSOS_NoContactCheck == StartSend

\* sendSOS up to its await
sendSOS ==
    IF Len(contacts) = 0
    THEN /\ status' = StNoContacts
         /\ calls' = <<CallSetStatus>>
         /\ UNCHANGED <<userName, contacts, contactName, contactPhone,
                        lastMessage, lastLink, storage, nextId, pending, href,
                        clipboard, now, geolocation>>
    ELSE StartSend

\* the success callback of line 127 and the rest of sendSOS (lines 147-150,
\* 156-176)
PositionSuccess(i, pos) ==
    /\ i \in 1..Len(pending)
    /\ pending[i].sensor = "waiting"
    /\ pending' = RemoveAt(pending, i)
    /\ Compose(pending[i], PositionLink[pos], <<>>)
    /\ UNCHANGED <<userName, contacts, contactName, contactPhone, storage,
                   nextId, clipboard, now, geolocation>>

\* the error callback with no catch around the await: the rejection ends
\* sendSOS there
PositionError_Aborts(i, code) ==
    /\ i \in 1..Len(pending)
    /\ pending[i].sensor = "waiting"
    /\ pending' = RemoveAt(pending, i)
    /\ calls' = <<>>
    /\ UNCHANGED <<status, userName, contacts, contactName, contactPhone,
                   lastMessage, lastLink, storage, nextId, href, clipboard, now,
                   geolocation>>

\* the error callback with a catch that leaves out setLastLink("")
PositionError_KeepsLink(i, code) ==
    /\ i \in 1..Len(pending)
    /\ pending[i].sensor = "waiting"
    /\ pending' = RemoveAt(pending, i)
    /\ lastLink' = lastLink
    /\ lastMessage' = message(pending[i].userName, "", pending[i].time)
    /\ href' = smsUrl(pending[i].recipientsCsv, lastMessage')
    /\ status' = StOpening
    /\ calls' = <<CallSetLastMessage, CallSetStatus, CallNavigate>>
    /\ UNCHANGED <<userName, contacts, contactName, contactPhone, storage,
                   nextId, clipboard, now, geolocation>>

\* the error callback of line 128 and the rest of sendSOS (lines 151-154,
\* 156-176)
PositionError(i, code) ==
    /\ i \in 1..Len(pending)
    /\ pending[i].sensor = "waiting"
    /\ pending' = RemoveAt(pending, i)
    /\ Compose(pending[i], "", <<>>)
    /\ UNCHANGED <<userName, contacts, contactName, contactPhone, storage,
                   nextId, clipboard, now, geolocation>>

\* the sensor drops the request: it will call neither callback (a permission
\* prompt left unanswered; the timeout of line 129 starts after the grant)
PositionSilence(i) ==
    /\ i \in 1..Len(pending)
    /\ pending[i].sensor = "waiting"
    /\ pending' = [pending EXCEPT ![i].sensor = "silent"]
    /\ calls' = <<>>
    /\ UNCHANGED <<status, userName, contacts, contactName, contactPhone,
                   lastMessage, lastLink, storage, nextId, href, clipboard, now,
                   geolocation>>

\* copyMessage without the check of lines 180-183
copyMessage_NoCheck(granted) ==
    /\ calls' = <<CallWriteText>>
    /\ clipboard' = lastMessage
    /\ status' = IF granted THEN StCopied ELSE status
    /\ UNCHANGED <<userName, contacts, contactName, contactPhone,
                   lastMessage, lastLink, storage, nextId, pending, href,
                   now, geolocation>>

\* lines 179-186; `granted` is whether the promise of writeText resolves:
\* a rejection ends copyMessage at the await, before line 185
copyMessage(granted) ==
    IF lastMessage = <<>>
    THEN /\ status' = StPressFirst
         /\ calls' = <<>>
         /\ UNCHANGED <<userName, contacts, contactName, contactPhone,
                        lastMessage, lastLink, storage, nextId, pending, href,
                        clipboard, now, geolocation>>
    ELSE /\ calls' = <<CallWriteText>>
         /\ clipboard' = lastMessage
         /\ status' = IF granted THEN StCopied ELSE status
         /\ UNCHANGED <<userName, contacts, contactName, contactPhone,
                        lastMessage, lastLink, storage, nextId, pending, href,
                        now, geolocation>>

\* time passes
Tick ==
    /\ now < MaxClock
    /\ now' = now + 1
    /\ calls' = <<>>
    /\ UNCHANGED <<status, userName, contacts, contactName, contactPhone,
                   lastMessage, lastLink, storage, nextId, pending, href,
                   clipboard, geolocation>>

\* the page is loaded anew: the initialisers of lines 41-55 read the store,
\* the effects of lines 57-63 write what was read back; sends that were
\* suspended are gone with the old page
Reload ==
    /\ status' = ""
    /\ userName' = loadString(storage, STORAGE_NAME, "")
    /\ contacts' = loadJson(storage, STORAGE_CONTACTS, <<>>)
    /\ contactName' = <<>>
    /\ contactPhone' = <<>>
    /\ lastMessage' = <<>>
    /\ lastLink' = ""
    /\ storage' = saveJson(saveString(storage, STORAGE_NAME, userName'),
                           STORAGE_CONTACTS, contacts')
    /\ pending' = <<>>
    /\ href' = NoHref
    /\ calls' = <<CallSaveName, CallSaveContacts>>
    /\ UNCHANGED <<nextId, clipboard, now, geolocation>>

\* the values under sos_contacts that loadJson answers with its fallback
UnreadableItems == { NoItem, EmptyText, MalformedText }

\* the value under sos_contacts is changed from outside the component: the
\* key is cleared, or a text is written that is not JSON
Tamper(raw) ==
    /\ storage[STORAGE_CONTACTS] # raw
    /\ storage' = [storage EXCEPT ![STORAGE_CONTACTS] = raw]
    /\ calls' = <<>>
    /\ UNCHANGED <<status, userName, contacts, contactName, contactPhone,
                   lastMessage, lastLink, nextId, pending, href, clipboard, now,
                   geolocation>>

-----------------------------------------------------------------------------
(* Specifications *)

Ids == 1..MaxIds

\* phone texts typed while sends are under way: a reserved number, a text
\* with a comma in it and a plain one
SendPhoneInputs == { Phone911Spaced, PhoneWithComma, PhoneDashed }

\* The contact list alone: the two fields, Add Contact and Remove, with every
\* phone text and name of the inputs.
NextStore ==
    \/ \E v \in ContactNames : SetContactName(v)
    \/ \E v \in PhoneInputs : SetContactPhone(v)
    \/ addContact
    \/ \E id \in Ids : removeContact(id)

SpecStore == Init /\ [][NextStore]_vars

\* The contact list and Send SOS together: what a send is handed by the store
\* and what it leaves behind.  The user name and the clock stay as they start.
Next ==
    \/ \E v \in SendPhoneInputs : SetContactPhone(v)
    \/ addContact
    \/ \E id \in Ids : removeContact(id)
    \/ Len(pending) < MaxSends /\ sendSOS
    \/ \E i \in 1..MaxSends, pos \in Positions : PositionSuccess(i, pos)
    \/ \E i \in 1..MaxSends, code \in PositionErrorCodes : PositionError(i, code)

Spec == Init /\ [][Next]_vars

\* The report of a send: the user name is edited and the clock advances while
\* sends run; the store gets its contacts from one phone text.
NextReport ==
    \/ \E v \in UserNames : SetUserName(v)
    \/ \E v \in {PhoneDashed} : SetContactPhone(v)
    \/ addContact
    \/ Len(pending) < MaxSends /\ sendSOS
    \/ \E i \in 1..MaxSends, pos \in Positions : PositionSuccess(i, pos)
    \/ \E i \in 1..MaxSends, code \in PositionErrorCodes : PositionError(i, code)
    \/ Tick

SpecReport == Init /\ [][NextReport]_vars

\* what the sensor may do with a request: answer it or drop it
SensorActs ==
    \/ \E i \in 1..MaxSends, pos \in Positions : PositionSuccess(i, pos)
    \/ \E i \in 1..MaxSends, code \in PositionErrorCodes : PositionError(i, code)
    \/ \E i \in 1..MaxSends : PositionSilence(i)

\* Send SOS over a sensor that may drop requests.  The sensor does not leave
\* a request undecided for ever, and the event loop runs the callback and the
\* rest of sendSOS with it: weak fairness of SensorActs.
NextFair ==
    \/ \E v \in SendPhoneInputs : SetContactPhone(v)
    \/ addContact
    \/ Len(pending) < MaxSends /\ sendSOS
    \/ SensorActs

FairSpec == Init /\ [][NextFair]_vars /\ WF_vars(SensorActs)

\* Send SOS and Copy message: sends with and without a position follow one
\* another and overlap, and the stored message is copied between them.
NextCopy ==
    \/ \E v \in {PhoneDashed} : SetContactPhone(v)
    \/ addContact
    \/ Len(pending) < MaxOverlap /\ sendSOS
    \/ \E i \in 1..MaxOverlap, pos \in Positions : PositionSuccess(i, pos)
    \/ \E i \in 1..MaxOverlap, code \in PositionErrorCodes : PositionError(i, code)
    \/ \E granted \in BOOLEAN : copyMessage(granted)

SpecCopy == Init /\ [][NextCopy]_vars

\* phone texts and names of the contacts that are saved and loaded again
ReloadPhoneInputs == { PhoneDashed, PhonePlain, PhoneWithComma }

\* The contact list over page loads: contacts are added and removed, the
\* stored value may be lost or spoilt, and the page is loaded anew.
NextReload ==
    \/ \E v \in ContactNames : SetContactName(v)
    \/ \E v \in ReloadPhoneInputs : SetContactPhone(v)
    \/ addContact
    \/ \E id \in Ids : removeContact(id)
    \/ \E raw \in UnreadableItems : Tamper(raw)
    \/ Reload

SpecReload == Init /\ [][NextReload]_vars

-----------------------------------------------------------------------------
(* Claims about the reserved numbers and the contact list *)

Range(q) == { q[i] : i \in 1..Len(q) }

\* the digit strings of the official emergency numbers
EmergencyDigits ==
    { <<"9", "1", "1">>, <<"1", "1", "2">>, <<"9", "9", "9">>, <<"9", "8", "8">> }

\* what the messaging surface reads in a dispatch target: the percent codes
\* undone, and the recipient list cut at its commas
PercentDecode(t) ==
    CASE t = "%20" -> " "
      [] t = "%2C" -> ","
      [] t = "%2B" -> "+"
      [] OTHER -> t

decodeURIComponent(s) == [i \in 1..Len(s) |-> PercentDecode(s[i])]

RECURSIVE SplitLoop(_, _, _)
SplitLoop(rest, sep, part) ==
    IF rest = <<>> THEN <<part>>
    ELSE IF Head(rest) = sep THEN <<part>> \o SplitLoop(Tail(rest), sep, <<>>)
    ELSE SplitLoop(Tail(rest), sep, Append(part, Head(rest)))

Split(s, sep) == SplitLoop(s, sep, <<>>)

Recipients(target) ==
    IF target = NoHref THEN {} ELSE Range(Split(decodeURIComponent(target.to), ","))

\* C1: no contact in the store and no recipient of a dispatch target has the
\* digits of an emergency number (911, 112, 999, 988), however the phone text
\* was punctuated or spaced.
C1_NoEmergencyNumberAddressed ==
    /\ \A i \in 1..Len(contacts) : normalizePhone(contacts[i].phone) \notin EmergencyDigits
    /\ \A r \in Recipients(href) : normalizePhone(r) \notin EmergencyDigits

\* C2: the digit-only forms of the phones of the contacts in the store are
\* pairwise different.
C2_DigitsUnique ==
    \A i, j \in 1..Len(contacts) :
        i # j => normalizePhone(contacts[i].phone) # normalizePhone(contacts[j].phone)

\* the indices of the contacts whose stored phone is the string p
Holding(cs, p) == { i \in 1..Len(cs) : cs[i].phone = p }

\* a phone text that passes the three checks of add
IsValidPhone(text) ==
    /\ Trim(text) # <<>>
    /\ normalizePhone(text) \notin EmergencyDigits
    /\ Len(normalizePhone(text)) >= 7

\* C3: a valid add whose trimmed phone is the stored phone of a contact leaves
\* exactly one entry for that string, the earlier contact at its place with
\* its id; one whose trimmed phone differs from every stored phone appends
\* exactly one contact, also when its digits are those of a stored contact.
C3_DedupByStoredPhone ==
    [][ (addContact /\ IsValidPhone(contactPhone)) =>
          LET p == Trim(contactPhone)
          IN  IF Holding(contacts, p) # {}
              THEN /\ Cardinality(Holding(contacts', p)) = 1
                   /\ \A i \in Holding(contacts, p) :
                        /\ i \in Holding(contacts', p)
                        /\ contacts'[i].id = contacts[i].id
                   /\ \A i \in 1..Len(contacts') : contacts'[i].id # nextId
                   /\ contacts' = contacts
              ELSE /\ Len(contacts') = Len(contacts) + 1
                   /\ SubSeq(contacts', 1, Len(contacts)) = contacts
                   /\ contacts'[Len(contacts')].phone = p
                   /\ contacts'[Len(contacts')].id = nextId
      ]_vars

\* C3 witness: "555-1234567" and "5551234567" were added and both remain,
\* and a third add, of a stored string again, was dropped.
C3_Witness ==
    /\ status = StSaved
    /\ nextId = 4
    /\ Len(contacts) = 2
    /\ contacts[1].id = 1 /\ contacts[1].phone = PhoneDashed
    /\ contacts[2].id = 2 /\ contacts[2].phone = PhonePlain

\* C4: a rejected add (phone empty after trimming, reserved, or of fewer than
\* 7 digits) changes the status and nothing else: the contact sequence and the
\* stored list stay as they were and no persistence write is made.
C4_RejectedAddWritesNothing ==
    [][ (addContact /\ ~IsValidPhone(contactPhone)) =>
          /\ contacts' = contacts
          /\ storage' = storage
          /\ CallSaveContacts \notin Range(calls')
          /\ status' \in {StEmptyPhone, StBlocked, StTooShort}
          /\ UNCHANGED <<userName, contactName, contactPhone, lastMessage,
                         lastLink, nextId, pending, href, clipboard>>
      ]_vars

\* C4 witness: an add of a six-digit phone was rejected over a store that
\* holds a contact.
C4_Witness ==
    /\ status = StTooShort
    /\ contactPhone = PhoneSixDigits
    /\ contacts # <<>>
    /\ calls = <<>>

\* C5: add reports the first check that fails, in the order empty, reserved,
\* too short; a reserved number is reported as blocked although it has fewer
\* than 7 digits, and whatever the store holds.
C5_ChecksInOrder ==
    [][ addContact =>
          status' = IF Trim(contactPhone) = <<>> THEN StEmptyPhone
                    ELSE IF normalizePhone(contactPhone) \in EmergencyDigits
                         THEN StBlocked
                    ELSE IF Len(normalizePhone(contactPhone)) < 7 THEN StTooShort
                    ELSE StSaved
      ]_vars

\* C5 witness: the add of " 9-1-1 " was reported as blocked.
C5_Witness ==
    /\ status = StBlocked
    /\ contactPhone = Phone911Spaced

\* C6: remove(id) with an id no contact has leaves the sequence as it was,
\* reports the removal (no error) and writes the unchanged list.
C6_RemoveUnknownId ==
    [][ \A id \in Ids :
          (removeContact(id) /\ \A i \in 1..Len(contacts) : contacts[i].id # id) =>
              /\ contacts' = contacts
              /\ status' = StRemoved
              /\ calls' = <<CallSaveContacts>>
              /\ loadJson(storage', STORAGE_CONTACTS, <<>>) = contacts
      ]_vars

\* C6 witness: a remove ran over a store that holds the one contact ever
\* added, so the id it was given matched none.
C6_Witness ==
    /\ status = StRemoved
    /\ nextId = 2
    /\ Len(contacts) = 1
    /\ calls = <<CallSaveContacts>>

-----------------------------------------------------------------------------
(* Claims about sending *)

\* a send that runs to its end without a position: the sensor called the
\* error callback, or there is no sensor
ProbeFails ==
    \/ \E i \in 1..MaxSends, code \in PositionErrorCodes : PositionError(i, code)
    \/ sendSOS /\ contacts # <<>> /\ ~geolocation

\* C7: send with an empty contact list sets the NoContacts status and stops:
\* no position request, no dispatch, the stored message and link unchanged.
C7_NoContactsStops ==
    [][ (contacts = <<>> /\ sendSOS) =>
          /\ status' = StNoContacts
          /\ pending' = pending
          /\ CallGetPosition \notin Range(calls')
          /\ CallNavigate \notin Range(calls')
          /\ href' = href
          /\ lastMessage' = lastMessage
          /\ lastLink' = lastLink
      ]_vars

\* C7 witness: a send was refused for want of contacts after an earlier send
\* had stored a message.
C7_Witness ==
    /\ status = StNoContacts
    /\ contacts = <<>>
    /\ lastMessage # <<>>

\* C8: a probe failure of any kind does not abort the send: the stored link
\* is empty, the stored text has the line "My location is unavailable right
\* now.", the dispatch capability is invoked with that text, and the status
\* is the one of the opened messaging surface.
C8_ProbeFailureDoesNotAbort ==
    [][ ProbeFails =>
          /\ lastLink' = ""
          /\ "My location is unavailable right now." \in Range(lastMessage')
          /\ CallNavigate \in Range(calls')
          /\ href'.scheme = "sms"
          /\ href'.body = encodeMessage(lastMessage')
          /\ status' = "Opening SMS app (tap Send)."
      ]_vars

\* C8 witness: with a sensor present, a send ended with the fallback line,
\* that is through the error callback.
C8_Witness ==
    /\ geolocation
    /\ status = StOpening
    /\ calls = <<CallSetLastLink, CallSetLastMessage, CallSetStatus, CallNavigate>>
    /\ lastLink = ""
    /\ LineUnavailable \in Range(lastMessage)

\* the Time lines of the clock readings of the model
TimeLines == { "Time: " \o toLocaleString(t) : t \in 0..MaxClock }

\* the structure of a report composed for user name `name`, with (known) or
\* without a position
ReportStructure(msg, link, name, known) ==
    /\ Len(msg) = IF known THEN 6 ELSE 5
    /\ msg[1] = IF name # "" THEN "My name is " \o name \o "."
                ELSE "This is an SOS message."
    /\ msg[2] = LineDetained
    /\ msg[3] = LineCheckOnMe
    /\ IF known
       THEN msg[4] = "My last known location is below:" /\ msg[5] = link
       ELSE msg[4] = "My location is unavailable right now."
    /\ msg[Len(msg)] \in TimeLines
    /\ (link = "") <=> ~known

\* C10: the report a send composes has, in order, the name line (or the SOS
\* line for an empty user name), the detained line, the check-on-me line, the
\* location heading and the link on its own line for a known position or else
\* the unavailable line, and the Time line last; the link is empty iff the
\* position is unknown.
C10_ReportStructure ==
    [][ /\ \A i \in 1..MaxSends, pos \in Positions :
              PositionSuccess(i, pos) =>
                  ReportStructure(lastMessage', lastLink', pending[i].userName, TRUE)
        /\ \A i \in 1..MaxSends, code \in PositionErrorCodes :
              PositionError(i, code) =>
                  ReportStructure(lastMessage', lastLink', pending[i].userName, FALSE)
        /\ (sendSOS /\ contacts # <<>> /\ ~geolocation) =>
              ReportStructure(lastMessage', lastLink', userName, FALSE)
      ]_vars

\* C10 witness: a report was composed for the user name Alex and a known
\* position.
C10_Witness ==
    /\ status = StOpening
    /\ Len(lastMessage) = 6
    /\ lastMessage[1] = "My name is Alex."
    /\ lastMessage[5] = lastLink
    /\ lastLink = "https://maps.google.com/?q=37.000000,-122.000000"

\* C9: every send started with a non-empty contact list ends, also when the
\* sensor calls neither callback.
C9_EverySendCompletes == (pending # <<>>) ~> (pending = <<>>)

-----------------------------------------------------------------------------
(* Claims about copying, persistence and the run of a send *)

\* C11: Copy message before any send has composed a message sets the status
\* "Press SOS first." and makes no clipboard call; after a send has composed
\* one, it hands writeText exactly the text the latest composition stored
\* (the text of the latest dispatch target), and the status is "Message
\* copied." once the write has resolved.
C11_CopyHandsLatestMessage ==
    [][ \A granted \in BOOLEAN :
          copyMessage(granted) =>
              IF href = NoHref
              THEN /\ status' = StPressFirst
                   /\ CallWriteText \notin Range(calls')
                   /\ clipboard' = clipboard
              ELSE /\ calls' = <<CallWriteText>>
                   /\ clipboard' = lastMessage
                   /\ encodeMessage(clipboard') = href.body
                   /\ granted => status' = "Message copied."
      ]_vars

\* C11 witness: after a send with a position and one without, the text of
\* the later one was copied.
C11_Witness ==
    /\ geolocation
    /\ status = StCopied
    /\ clipboard = lastMessage
    /\ lastLink = ""
    /\ encodeMessage(clipboard) = href.body

\* C12: between operations the list under the key sos_contacts is the
\* in-memory contact sequence, element for element in the same order; so it
\* is after every successful add and every remove.
C12_StoredListIsContacts ==
    /\ storage[STORAGE_CONTACTS] # NoItem
    /\ storage[STORAGE_CONTACTS].json = "array"
    /\ Len(storage[STORAGE_CONTACTS].items) = Len(contacts)
    /\ \A i \in 1..Len(contacts) :
          storage[STORAGE_CONTACTS].items[i] =
              <<contacts[i].id, contacts[i].name, contacts[i].phone>>
    /\ loadJson(storage, STORAGE_CONTACTS, <<>>) = contacts

\* C12 witness: three contacts were added and the middle one removed; the
\* stored list is the two that stay.
C12_Witness ==
    /\ status = StRemoved
    /\ nextId = 4
    /\ Len(contacts) = 2
    /\ contacts[1].id = 1 /\ contacts[2].id = 3
    /\ Len(storage[STORAGE_CONTACTS].items) = 2
    /\ storage[STORAGE_CONTACTS].items[2][1] = 3

\* C13: a page load over the list the component wrote yields the contact
\* sequence that was in memory, equal in ids, names, phones and order; a page
\* load over an absent key, or over a text that cannot be parsed, yields the
\* empty sequence and an ordinary first render (empty status, the empty list
\* written back).
C13_RoundTripAndFallback ==
    [][ Reload =>
          LET raw == storage[STORAGE_CONTACTS]
          IN  /\ (raw # NoItem /\ raw.json = "array") => contacts' = contacts
              /\ raw \in UnreadableItems => contacts' = <<>>
              /\ status' = ""
              /\ loadJson(storage', STORAGE_CONTACTS, <<>>) = contacts'
              /\ loadJson(saveJson(storage, STORAGE_CONTACTS, contacts),
                          STORAGE_CONTACTS, <<>>) = contacts
      ]_vars

\* C13 witness: the page was loaded over a stored list of two contacts, one
\* of them named, and holds them as they were saved.
C13_Witness ==
    /\ calls = <<CallSaveName, CallSaveContacts>>
    /\ Len(contacts) = 2
    /\ contacts[1] = [id |-> 2, name |-> <<"A", "l">>, phone |-> PhonePlain]
    /\ contacts[2] = [id |-> 3, name |-> <<>>, phone |-> PhoneDashed]

\* how often the call x is in the log of a step
Count(log, x) == Cardinality({ i \in 1..Len(log) : log[i] = x })

\* the step in which a send with contacts and a sensor starts
SendStarts == contacts # <<>> /\ geolocation /\ sendSOS

\* the step in which such a send ends: a callback of the sensor and the rest
\* of sendSOS
SendEnds ==
    /\ Len(pending') < Len(pending)
    /\ \/ \E i \in 1..MaxSends, pos \in Positions : PositionSuccess(i, pos)
       \/ \E i \in 1..MaxSends, code \in PositionErrorCodes : PositionError(i, code)

\* a whole send in one step: contacts, and no sensor to ask
SendWithoutSensor ==
    contacts # <<>> /\ ~geolocation /\ status' = StOpening /\ sendSOS

\* C14: a send with contacts sets the "Getting location..." status and then
\* asks the sensor, once, and the run waits there with report and target
\* untouched; the step that ends the run stores link and message, sets the
\* status of the opened SMS app and only then assigns the dispatch target,
\* once, built from the stored message.  No other step asks the sensor or
\* dispatches, and each run has one starting and one ending step.  Where
\* there is no sensor to ask, the same calls are made in the same order in
\* one step, without the request.
C14_PhasesInOrder ==
    [][ LET starts == SendStarts
            ends == SendEnds
            alone == SendWithoutSensor
        IN  /\ starts =>
                  /\ calls' = <<CallSetStatus, CallGetPosition>>
                  /\ status' = "Getting location..."
                  /\ Len(pending') = Len(pending) + 1
                  /\ UNCHANGED <<lastMessage, lastLink, href>>
            /\ ends =>
                  /\ calls' = <<CallSetLastLink, CallSetLastMessage, CallSetStatus,
                                CallNavigate>>
                  /\ status' = "Opening SMS app (tap Send)."
                  /\ Len(pending') = Len(pending) - 1
                  /\ href'.body = encodeMessage(lastMessage')
            /\ alone =>
                  /\ calls' = <<CallSetStatus, CallSetLastLink, CallSetLastMessage,
                                CallSetStatus, CallNavigate>>
                  /\ status' = "Opening SMS app (tap Send)."
                  /\ pending' = pending
                  /\ href'.body = encodeMessage(lastMessage')
            /\ Count(calls', CallGetPosition) = (IF starts THEN 1 ELSE 0)
            /\ Count(calls', CallNavigate) = (IF ends \/ alone THEN 1 ELSE 0)
            /\ Len(pending') # Len(pending) => starts \/ ends
      ]_vars

\* C14 witness: a send that asked the sensor and was handed a position has
\* run to its end.
C14_Witness ==
    /\ geolocation
    /\ pending = <<>>
    /\ status = StOpening
    /\ calls = <<CallSetLastLink, CallSetLastMessage, CallSetStatus, CallNavigate>>
    /\ lastLink # ""
    /\ href.body = encodeMessage(lastMessage)

\* C15 as stated: the message a send composes carries the user name and the
\* time that are current when the position result arrives and the message is
\* composed, however the name was edited and the clock advanced meanwhile.
C15_NameAndTimeOfComposition ==
    [][ SendEnds => lastMessage' = message(userName, lastLink', TimeText[now]) ]_vars

\* C15 amended: the message a send composes carries the user name and the
\* time that were current when sendSOS was invoked: the name of the render
\* the button was pressed in and the clock reading taken at line 142, before
\* the position is awaited; edits of the name and the passing of time while
\* the probe is pending do not show in it.
C15_NameAndTimeOfInvocation ==
    [][ /\ SendStarts =>
              /\ pending'[Len(pending')].userName = userName
              /\ pending'[Len(pending')].time = TimeText[now]
              /\ SubSeq(pending', 1, Len(pending)) = pending
        /\ \A i \in 1..MaxSends, pos \in Positions :
              PositionSuccess(i, pos) =>
                  lastMessage' = message(pending[i].userName, lastLink', pending[i].time)
        /\ \A i \in 1..MaxSends, code \in PositionErrorCodes :
              PositionError(i, code) =>
                  lastMessage' = message(pending[i].userName, lastLink', pending[i].time)
        /\ SendWithoutSensor =>
              lastMessage' = message(userName, lastLink', TimeText[now])
        /\ ~SendEnds =>
              \A i \in 1..Len(pending) :
                  /\ i <= Len(pending')
                  /\ pending'[i].userName = pending[i].userName
                  /\ pending'[i].time = pending[i].time
      ]_vars

\* C15 witness: a send was started by Alex at the clock's start; the name was
\* cleared and the clock advanced while the probe was pending, and the
\* message composed afterwards has Alex's name and the time of the start.
C15_Witness ==
    /\ calls = <<CallSetLastLink, CallSetLastMessage, CallSetStatus, CallNavigate>>
    /\ userName = ""
    /\ now = 1
    /\ lastMessage[1] = "My name is Alex."
    /\ lastMessage[Len(lastMessage)] = "Time: " \o TimeText[0]

\* C16: every contact in the store has a phone that is not empty, has no
\* white space at either end, and has at least 7 digits.
C16_StoredPhonesValid ==
    \A i \in 1..Len(contacts) :
        /\ contacts[i].phone # <<>>
        /\ Head(contacts[i].phone) # " "
        /\ contacts[i].phone[Len(contacts[i].phone)] # " "
        /\ Trim(contacts[i].phone) = contacts[i].phone
        /\ Cardinality({ k \in 1..Len(contacts[i].phone) :
                            contacts[i].phone[k] \in Digits }) >= 7

\* C16 witness: the second contact added has the phone 555-1234567, typed
\* with or without spaces around it.
C16_Witness ==
    /\ status = StSaved
    /\ contacts # <<>>
    /\ contacts[Len(contacts)].phone = PhoneDashed
    /\ contacts[Len(contacts)].id = 2

\* the places of cs whose contact has another id than `id`
Staying(cs, id) == { k \in 1..Len(cs) : cs[k].id # id }

\* C17: the store keeps insertion order.  A successful add leaves the
\* contacts that were there at their places and puts the new contact, if it
\* survives dedup, last; remove(id) takes out the contact of that id and
\* leaves the others in their order; no step changes the id, name or phone of
\* a contact that stays, and no two contacts share an id.
C17_InsertionOrderKept ==
    [][ /\ addContact =>
              /\ SubSeq(contacts', 1, Len(contacts)) = contacts
              /\ \/ contacts' = contacts
                 \/ /\ IsValidPhone(contactPhone)
                    /\ contacts' = Append(contacts,
                                          [id |-> nextId,
                                           name |-> Trim(contactName),
                                           phone |-> Trim(contactPhone)])
        /\ \A id \in Ids :
              removeContact(id) =>
                  /\ Len(contacts') = Cardinality(Staying(contacts, id))
                  /\ \A k \in Staying(contacts, id) :
                        contacts'[Cardinality({ m \in Staying(contacts, id) : m <= k })]
                            = contacts[k]
        /\ ~(addContact \/ \E id \in Ids : removeContact(id)) => contacts' = contacts
        /\ \A i, j \in 1..Len(contacts') : i # j => contacts'[i].id # contacts'[j].id
      ]_vars

\* C17 witness: contacts 1 and 2 were added, 1 was removed, and the contact
\* added after that stands last, behind contact 2.
C17_Witness ==
    /\ status = StSaved
    /\ Len(contacts) = 2
    /\ contacts[1].id = 2
    /\ contacts[2].id = 3

-----------------------------------------------------------------------------
(* Claims about sends that overlap with other operations *)

\* the phones of cs in store order, with a comma between each two
RECURSIVE PhonesJoined(_)
PhonesJoined(cs) ==
    IF cs = <<>> THEN <<>>
    ELSE IF Len(cs) = 1 THEN cs[1].phone
    ELSE cs[1].phone \o <<",">> \o PhonesJoined(Tail(cs))

\* C18: the recipient list of the dispatch target of a send is the phones,
\* comma-joined in store order, of the contacts the store held when sendSOS
\* was invoked; contacts added or removed while its probe is pending do not
\* change it.
C18_RecipientsOfInvocation ==
    [][ /\ SendStarts =>
              /\ pending'[Len(pending')].recipientsCsv = PhonesJoined(contacts)
              /\ SubSeq(pending', 1, Len(pending)) = pending
        /\ \A i \in 1..Len(pending) :
              (/\ Len(pending') < Len(pending)
               /\ \/ \E pos \in Positions : PositionSuccess(i, pos)
                  \/ \E code \in PositionErrorCodes : PositionError(i, code)) =>
                  decodeURIComponent(href'.to) = pending[i].recipientsCsv
        /\ SendWithoutSensor =>
              decodeURIComponent(href'.to) = PhonesJoined(contacts)
        /\ ~SendEnds =>
              \A i \in 1..Len(pending) :
                  /\ i <= Len(pending')
                  /\ pending'[i].recipientsCsv = pending[i].recipientsCsv
      ]_vars

\* C18 witness: a send was started with the one contact 555-1234567, a second
\* contact was added while the probe was pending, and the target of the send
\* names the first contact alone.
C18_Witness ==
    /\ calls = <<CallSetLastLink, CallSetLastMessage, CallSetStatus, CallNavigate>>
    /\ Len(contacts) = 2
    /\ contacts[1].phone = PhoneDashed
    /\ decodeURIComponent(href.to) = PhoneDashed

\* C19: no dispatch target has an empty recipient list, whatever was removed
\* from the store while the probe of its send was pending.
C19_RecipientsNeverEmpty ==
    href # NoHref =>
        /\ href.to # <<>>
        /\ decodeURIComponent(href.to) # <<>>
        /\ Recipients(href) # {}
        /\ <<>> \notin Recipients(href)

\* C19 witness: every contact was removed while the probe of a send was
\* pending, and the send has dispatched to the contact it started with.
C19_Witness ==
    /\ geolocation
    /\ calls = <<CallSetLastLink, CallSetLastMessage, CallSetStatus, CallNavigate>>
    /\ contacts = <<>>
    /\ decodeURIComponent(href.to) = PhoneDashed

\* C20: between steps the stored link and the stored message agree, also
\* when sends overlap: the link is not empty iff the message has the line "My
\* last known location is below:" with exactly that link on the next line,
\* and the link is empty iff the message is empty or has the line "My
\* location is unavailable right now."; so a send that ends without a
\* position after one that had a position leaves an empty link.
C20_LinkAgreesWithMessage ==
    /\ lastLink # "" <=>
          \E k \in 1..(Len(lastMessage) - 1) :
              /\ lastMessage[k] = "My last known location is below:"
              /\ lastMessage[k + 1] = lastLink
    /\ lastLink = "" <=>
          \/ lastMessage = <<>>
          \/ "My location is unavailable right now." \in Range(lastMessage)

\* C20 witness: a message with a link was composed and copied; later, of two
\* sends in flight at once, one ended without a position while the other
\* still waits, and the stored link is empty.
C20_Witness ==
    /\ calls = <<CallSetLastLink, CallSetLastMessage, CallSetStatus, CallNavigate>>
    /\ Len(pending) = 1
    /\ lastLink = ""
    /\ LineUnavailable \in Range(lastMessage)
    /\ LineLocationBelow \in Range(clipboard)

====
